---------------------------- MODULE Spec2Model ----------------------------
(***************************************************************************)
(* Model of ibisclient/connection.py: IbisClientConnection (credentials,   *)
(* parameter coercion, URL building, invoke_method and the classification  *)
(* of the HTTP response).                                                  *)
(*                                                                         *)
(* Python strings that the code transforms character by character (path    *)
(* templates, parameter keys and values, URLs) are sequences of one-char   *)
(* strings; strings the code only stores or compares (user names, content  *)
(* types, reason phrases, bodies) are TLA+ strings.  A Python dict is the   *)
(* sequence of its items in insertion order, each item [k |-> .., v |-> ..]*)
(* with the keys distinct.  An optional str is <<>> (None) or <<s>>.       *)
(***************************************************************************)
EXTENDS Integers, Sequences, FiniteSets, TLC

(***************************************************************************)
(* Bounds of the model.                                                    *)
(***************************************************************************)
\* number of threads that call a credential setter concurrently (SpecThreads)
NThreads == 2
\* number of Connection objects the program creates (Spec)
NConns == 2

(***************************************************************************)
(* Python values and helpers.                                              *)
(***************************************************************************)
NoneVal == <<>>
Str(s) == <<s>>

\* Result of running code that may raise: exc = "" when it returned.
Ok(v) == [exc |-> "", val |-> v]
Raise(e) == [exc |-> e, val |-> <<>>]

\* sep.join(strs) for a sequence of strings
RECURSIVE Join(_, _)
Join(sep, strs) ==
    IF strs = <<>> THEN <<>>
    ELSE IF Len(strs) = 1 THEN strs[1]
    ELSE strs[1] \o sep \o Join(sep, Tail(strs))

\* dict helpers: key in d, d[key], d[key] = value (insertion order kept)
DictHas(d, key) == \E i \in 1..Len(d) : d[i].k = key
DictGet(d, key) == d[CHOOSE i \in 1..Len(d) : d[i].k = key].v
DictSet(d, key, value) ==
    IF DictHas(d, key)
    THEN [i \in 1..Len(d) |-> IF d[i].k = key THEN [k |-> key, v |-> value] ELSE d[i]]
    ELSE Append(d, [k |-> key, v |-> value])

Digit == <<"0", "1", "2", "3", "4", "5", "6", "7", "8", "9">>

\* str(n) / "%d" % n for an integer n
RECURSIVE NatToStr(_)
NatToStr(n) == IF n < 10 THEN <<Digit[n + 1]>>
               ELSE NatToStr(n \div 10) \o <<Digit[(n % 10) + 1]>>
IntToStr(n) == IF n < 0 THEN <<"-">> \o NatToStr(0 - n) ELSE NatToStr(n)

\* "%02d" % n
Pad2(n) == IF n >= 0 /\ n < 10 THEN <<"0">> \o IntToStr(n) ELSE IntToStr(n)

_MONTHS == << <<"J","a","n">>, <<"F","e","b">>, <<"M","a","r">>, <<"A","p","r">>,
              <<"M","a","y">>, <<"J","u","n">>, <<"J","u","l">>, <<"A","u","g">>,
              <<"S","e","p">>, <<"O","c","t">>, <<"N","o","v">>, <<"D","e","c">> >>

\* urllib.parse.quote_plus on one character: unreserved characters are kept,
\* a space becomes "+", anything else is percent-encoded.
QuoteChar(ch) ==
    CASE ch = " " -> <<"+">>
      [] ch = "/" -> <<"%", "2", "F">>
      [] ch = "," -> <<"%", "2", "C">>
      [] ch = "&" -> <<"%", "2", "6">>
      [] ch = "+" -> <<"%", "2", "B">>
      [] ch = "%" -> <<"%", "2", "5">>
      [] ch = "=" -> <<"%", "3", "D">>
      [] ch = "?" -> <<"%", "3", "F">>
      [] ch = "(" -> <<"%", "2", "8">>
      [] ch = ")" -> <<"%", "2", "9">>
      [] OTHER -> <<ch>>

RECURSIVE quote_plus(_)
quote_plus(s) == IF s = <<>> THEN <<>> ELSE QuoteChar(Head(s)) \o quote_plus(Tail(s))

\* urllib.parse.urlencode(d) for a dict of str keys and str values
RECURSIVE urlencode(_)
urlencode(d) ==
    IF d = <<>> THEN <<>>
    ELSE LET item == quote_plus(d[1].k) \o <<"=">> \o quote_plus(d[1].v)
         IN  IF Len(d) = 1 THEN item ELSE item \o <<"&">> \o urlencode(Tail(d))

\* index of the first ")" in s at or after position i, 0 when there is none
RECURSIVE FindClose(_, _)
FindClose(s, i) ==
    IF i > Len(s) THEN 0
    ELSE IF s[i] = ")" THEN i ELSE FindClose(s, i + 1)

\* Python's  path % params  for a str template and a dict operand: %(key)s is
\* replaced by params[key] (KeyError when absent), %% is a literal percent
\* sign, any other use of % is a ValueError.
RECURSIVE PercentFormat(_, _)
PercentFormat(path, params) ==
    IF path = <<>> THEN Ok(<<>>)
    ELSE IF Head(path) # "%" THEN
        LET rest == PercentFormat(Tail(path), params)
        IN  IF rest.exc # "" THEN rest ELSE Ok(<<Head(path)>> \o rest.val)
    ELSE IF Len(path) < 2 THEN Raise("ValueError")
    ELSE IF path[2] = "%" THEN
        LET rest == PercentFormat(SubSeq(path, 3, Len(path)), params)
        IN  IF rest.exc # "" THEN rest ELSE Ok(<<"%">> \o rest.val)
    ELSE IF path[2] # "(" THEN Raise("ValueError")
    ELSE LET close == FindClose(path, 3)
         IN  IF close = 0 \/ close = Len(path) THEN Raise("ValueError")
             ELSE LET key == SubSeq(path, 3, close - 1)
                  IN  IF ~DictHas(params, key) THEN Raise("KeyError")
                      ELSE IF path[close + 1] # "s" THEN Raise("ValueError")
                      ELSE LET rest == PercentFormat(SubSeq(path, close + 2, Len(path)), params)
                           IN  IF rest.exc # "" THEN rest
                               ELSE Ok(DictGet(params, key) \o rest.val)


(***************************************************************************)
(* Parameter values a caller may put in a parameter map.                   *)
(***************************************************************************)
PyNone == [t |-> "none"]
PyBool(b) == [t |-> "bool", b |-> b]
PyDate(y, m, d) == [t |-> "date", year |-> y, month |-> m, day |-> d]
PyList(items) == [t |-> "list", items |-> items]
PyDto(enc) == [t |-> "dto", enc |-> enc]
PyInt(n) == [t |-> "int", n |-> n]
PyStr(s) == [t |-> "str", s |-> s]

\* IbisDto.encoded_string(): the DTO's own wire encoding
encoded_string(value) == value.enc

\* ",".join(value): every item has to be a str
JoinItems(items) ==
    IF \E i \in 1..Len(items) : items[i].t # "str" THEN Raise("TypeError")
    ELSE Ok(Join(<<",">>, [i \in 1..Len(items) |-> items[i].s]))

\* the isinstance chain of _params_to_strings for one value that is not None
CoerceValue(value) ==
    CASE value.t = "bool" -> Ok(IF value.b THEN <<"t","r","u","e">>
                                           ELSE <<"f","a","l","s","e">>)
      [] value.t = "date" -> Ok(Pad2(value.day) \o <<" ">> \o _MONTHS[value.month]
                                \o <<" ">> \o IntToStr(value.year))
      [] value.t = "list" -> JoinItems(value.items)
      [] value.t = "dto" -> Ok(encoded_string(value))
      [] value.t = "int" -> Ok(IntToStr(value.n))
      [] value.t = "str" -> Ok(value.s)

\* _params_to_strings: the new dict of the items whose value is not None,
\* each value converted to a str; the first conversion that raises ends it.
RECURSIVE _params_to_strings(_)
_params_to_strings(params) ==
    IF params = <<>> THEN Ok(<<>>)
    ELSE LET item == params[Len(params)]
             front == _params_to_strings(SubSeq(params, 1, Len(params) - 1))
         IN  IF front.exc # "" THEN front
             ELSE IF item.v.t = "none" THEN front
             ELSE LET c == CoerceValue(item.v)
                  IN  IF c.exc # "" THEN c
                      ELSE Ok(DictSet(front.val, item.k, c.val))

\* the object that holds the result of _params_to_strings: new_params = {}
\* is a new dict (fresh), never the dict passed in (params).
new_params_aliased(params, fresh) == params
new_params(params, fresh) == fresh

(***************************************************************************)
(* _build_url, on a heap h of dict objects: path_params and query_params   *)
(* are references, and the assignments of the code are writes to h.        *)
(***************************************************************************)
K_flatten == <<"f","l","a","t","t","e","n">>
V_true == <<"t","r","u","e">>

\* for key, value in path_params.items(): path_params[key] = quote_plus(value)
QuotePathParams(d) == [i \in 1..Len(d) |-> [k |-> d[i].k, v |-> quote_plus(d[i].v)]]

\* if "flatten" not in query_params: query_params["flatten"] = "true"
InjectFlatten_overwrite(d) == DictSet(d, K_flatten, V_true)
InjectFlatten(d) == IF ~DictHas(d, K_flatten) THEN DictSet(d, K_flatten, V_true) ELSE d

\* if path.startswith("/"): url_base + path[1:]  else: url_base + path
PrefixBase(url_base, path) ==
    IF path # <<>> /\ Head(path) = "/" THEN url_base \o Tail(path) ELSE url_base \o path

_build_url_lenient(h, url_base, path, path_params, query_params) ==
    LET h1 == [h EXCEPT ![path_params] = QuotePathParams(h[path_params])]
        fmt == PercentFormat(path, h1[path_params])
        h2 == [h1 EXCEPT ![query_params] = InjectFlatten(h1[query_params])]
        full == (IF fmt.exc # "" THEN path ELSE fmt.val) \o <<"?">> \o urlencode(h2[query_params])
    IN  [exc |-> "", url |-> PrefixBase(url_base, full), heap |-> h2]
_build_url(h, url_base, path, path_params, query_params) ==
    LET h1 == [h EXCEPT ![path_params] = QuotePathParams(h[path_params])]
        fmt == PercentFormat(path, h1[path_params])
    IN  IF fmt.exc # "" THEN [exc |-> fmt.exc, url |-> <<>>, heap |-> h1]
        ELSE LET h2 == [h1 EXCEPT ![query_params] = InjectFlatten(h1[query_params])]
                 full == fmt.val \o <<"?">> \o urlencode(h2[query_params])
             IN  [exc |-> "", url |-> PrefixBase(url_base, full), heap |-> h2]

\* __init__: url_base is made to start and to end with "/"
NormalizeBase(url_base) ==
    LET b1 == IF url_base = <<>> \/ Head(url_base) # "/" THEN <<"/">> \o url_base ELSE url_base
    IN  IF b1[Len(b1)] # "/" THEN b1 \o <<"/">> ELSE b1

\* "https://%s:%s%s" % (self.host, self.port, relative)
AbsoluteUrl(host, port, relative) ==
    <<"h","t","t","p","s",":","/","/">> \o host \o <<":">> \o IntToStr(port) \o relative

\* _update_authorization: the tuple stored in session.auth, from the two tests
\* (is not None) and the two reads of self.username / self.password
AuthTuple_unresolved(u_test, u_val, p_test, p_val) == [username |-> u_val, password |-> p_val]
AuthTuple(u_test, u_val, p_test, p_val) ==
    [username |-> IF u_test # NoneVal THEN u_val ELSE Str("anonymous"),
     password |-> IF p_test # NoneVal THEN p_val ELSE Str("")]

(***************************************************************************)
(* The HTTP response of the transport, and the payload parser.             *)
(***************************************************************************)
XML == "application/xml"
\* response.headers["Content-type"] raises KeyError when the header is absent
NoHeader == "<no Content-type header>"
ContentTypes == {XML, "text/html", "application/xml; charset=UTF-8", NoHeader}
StatusCodes == {200, 500}
Reasons == {"OK", "Internal Server Error"}
Bodies == {"<result><person/></result>", "<result><error/></result>", "<result><per"}

Responses == [status_code : StatusCodes, reason : Reasons,
              content_type : ContentTypes, body : Bodies]

Success(payload) == [kind |-> "Success", payload |-> Str(payload), error |-> NoneVal]
Failure(error) == [kind |-> "Failure", payload |-> NoneVal, error |-> Str(error)]

\* IbisError(attrs), then the assignments to message and details
IbisError(status, code, message, details) ==
    [status |-> status, code |-> code, message |-> message, details |-> details]

\* IbisResultParser().parse_xml(content): the result the payload carries, or
\* the XML parser's fault on a malformed body
parse_xml(content) ==
    CASE content = "<result><person/></result>" -> Ok(Success("person"))
      [] content = "<result><error/></result>" ->
            Ok(Failure(IbisError(404, "NotFound", "No such person", "")))
      [] OTHER -> Raise("ExpatError")

\* invoke_method, lines 241-256: the outcome for a response.  parsed counts
\* the calls of the parser.
Classify_swallow(response) ==
    IF response.content_type = NoHeader
    THEN [exc |-> "KeyError", val |-> <<>>, parsed |-> 0]
    ELSE IF response.content_type # XML \/ parse_xml(response.body).exc # ""
    THEN [exc |-> "", parsed |-> IF response.content_type # XML THEN 0 ELSE 1,
          val |-> Str(Failure(IbisError(response.status_code, response.reason,
                                        "Unexpected result from server", response.body)))]
    ELSE [exc |-> "", val |-> Str(parse_xml(response.body).val), parsed |-> 1]
Classify_by_status(response) ==
    IF response.content_type = NoHeader
    THEN [exc |-> "KeyError", val |-> <<>>, parsed |-> 0]
    ELSE IF response.status_code >= 400
    THEN [exc |-> "", parsed |-> 0,
          val |-> Str(Failure(IbisError(response.status_code, response.reason,
                                        "Unexpected result from server", response.body)))]
    ELSE LET p == parse_xml(response.body)
         IN  IF p.exc # "" THEN [exc |-> p.exc, val |-> <<>>, parsed |-> 1]
             ELSE [exc |-> "", val |-> Str(p.val), parsed |-> 1]
Classify(response) ==
    IF response.content_type = NoHeader
    THEN [exc |-> "KeyError", val |-> <<>>, parsed |-> 0]
    ELSE IF response.content_type # XML
    THEN [exc |-> "", parsed |-> 0,
          val |-> Str(Failure(IbisError(response.status_code, response.reason,
                                        "Unexpected result from server", response.body)))]
    ELSE LET p == parse_xml(response.body)
         IN  IF p.exc # "" THEN [exc |-> p.exc, val |-> <<>>, parsed |-> 1]
             ELSE [exc |-> "", val |-> Str(p.val), parsed |-> 1]

(***************************************************************************)
(* The dict objects of the program: the caller's parameter maps, the       *)
(* default {} objects of invoke_method's signature, and the three dicts    *)
(* that one invocation allocates.                                          *)
(***************************************************************************)
K_id == <<"i","d">>
K_fetch == <<"f","e","t","c","h">>
K_name == <<"n","a","m","e">>

PathObjs == {"p_space", "p_plain", "p_none", "p_badlist", "p_int"}
QueryObjs == {"q_fetch", "q_flat_false", "q_flat_none", "q_flat_str", "q_date"}
FormObjs == {"f_name", "f_none", "q_fetch"}
DefaultObjs == {"d_path", "d_query", "d_form"}
LocalObjs == {"l_path", "l_query", "l_form"}
CallerObjs == PathObjs \cup QueryObjs \cup FormObjs
ObjIds == CallerObjs \cup DefaultObjs \cup LocalObjs

InitHeap ==
    [o \in ObjIds |->
        CASE o = "p_space" -> << [k |-> K_id, v |-> PyStr(<<"a"," ","/","b">>)] >>
          [] o = "p_plain" -> << [k |-> K_id, v |-> PyStr(<<"x">>)] >>
          [] o = "p_none" -> << [k |-> K_id, v |-> PyNone] >>
          [] o = "p_badlist" -> << [k |-> K_id, v |-> PyList(<<PyStr(<<"a">>), PyInt(7)>>)] >>
          [] o = "p_int" -> << [k |-> K_id, v |-> PyInt(17)] >>
          [] o = "q_fetch" -> << [k |-> K_fetch, v |-> PyList(<<PyStr(<<"e">>), PyStr(<<"t">>)>>)] >>
          [] o = "q_flat_false" -> << [k |-> K_flatten, v |-> PyBool(FALSE)],
                                      [k |-> K_fetch, v |-> PyDto(<<"d","&","1">>)] >>
          [] o = "q_flat_none" -> << [k |-> K_flatten, v |-> PyNone] >>
          [] o = "q_flat_str" -> << [k |-> K_flatten, v |-> PyStr(<<"n","o">>)] >>
          [] o = "q_date" -> << [k |-> K_fetch, v |-> PyDate(2024, 1, 2)],
                                [k |-> K_flatten, v |-> PyBool(TRUE)] >>
          [] o = "f_name" -> << [k |-> K_name, v |-> PyStr(<<"n">>)] >>
          [] o = "f_none" -> << [k |-> K_name, v |-> PyNone] >>
          [] OTHER -> << >>]

\* path templates: "p/%(id)s", "/p", "%(id)s/%(x)s", "p%"
Paths == { <<"p","/","%","(","i","d",")","s">>,
           <<"/","p">>,
           <<"%","(","i","d",")","s","/","%","(","x",")","s">>,
           <<"p","%">> }
Methods == {"GET", "POST"}

Conns == 1..NConns
Threads == 1..NThreads
Hosts == { <<"h">> }
Ports == { 443 }
UrlBases == { <<>>, <<"i","b","i","s">> }
Usernames == {NoneVal, Str("grp")}
Passwords == {NoneVal, Str("pw")}

VARIABLES
    created, host, port, url_base, session, username, password,
    auth, verify, warned,
    heap,
    pc, conn, a_method, a_path, a_pp, a_qp, a_fp,
    path_params, query_params, form_params, url,
    request, sent, response, parsed, result, fault,
    t_pc, t_ut, t_uv, t_pt, t_pv, overlapped

connVars == <<created, host, port, url_base, session, username, password>>
sessVars == <<auth, verify, warned>>
callVars == <<pc, conn, a_method, a_path, a_pp, a_qp, a_fp,
              path_params, query_params, form_params, url,
              request, sent, response, parsed, result, fault>>
threadVars == <<t_pc, t_ut, t_uv, t_pt, t_pv, overlapped>>
vars == <<connVars, sessVars, heap, callVars, threadVars>>

NoCall ==
    /\ pc = "idle" /\ conn = 0 /\ a_method = "" /\ a_path = <<>>
    /\ a_pp = "" /\ a_qp = "" /\ a_fp = ""
    /\ path_params = "" /\ query_params = "" /\ form_params = ""
    /\ url = <<>> /\ request = NoneVal /\ sent = 0 /\ response = NoneVal
    /\ parsed = 0 /\ result = NoneVal /\ fault = ""

ThreadsIdle ==
    /\ t_pc = [t \in Threads |-> "idle"]
    /\ t_ut = [t \in Threads |-> NoneVal] /\ t_uv = [t \in Threads |-> NoneVal]
    /\ t_pt = [t \in Threads |-> NoneVal] /\ t_pv = [t \in Threads |-> NoneVal]
    /\ overlapped = FALSE

\* before any Connection exists; a requests.Session starts with auth = None
\* and verify = True
Init ==
    /\ created = [c \in Conns |-> FALSE]
    /\ host = [c \in Conns |-> <<>>] /\ port = [c \in Conns |-> 0]
    /\ url_base = [c \in Conns |-> <<>>]
    /\ session = [c \in Conns |-> 0]
    /\ username = [c \in Conns |-> NoneVal] /\ password = [c \in Conns |-> NoneVal]
    /\ auth = [s \in Conns |-> NoneVal] /\ verify = [s \in Conns |-> TRUE]
    /\ warned = FALSE
    /\ heap = InitHeap
    /\ NoCall /\ ThreadsIdle

\* self._update_authorization() of connection c, run without interruption
_update_authorization(a, s, u, p) == [a EXCEPT ![s] = Str(AuthTuple(u, u, p, p))]

\* IbisClientConnection(h, prt, base, check_certs, session=sess); sess is None
\* (a new Session, named after c) or the Session of an existing connection
Construct(c, h, prt, base, check_certs, sess) ==
    /\ pc = "idle" /\ ~created[c]
    /\ LET s == IF sess = NoneVal THEN c ELSE sess[1]
       IN  /\ session' = [session EXCEPT ![c] = s]
           /\ verify' = IF ~check_certs THEN [verify EXCEPT ![s] = FALSE] ELSE verify
           /\ auth' = _update_authorization(auth, s, Str("anonymous"), NoneVal)
    /\ created' = [created EXCEPT ![c] = TRUE]
    /\ host' = [host EXCEPT ![c] = h] /\ port' = [port EXCEPT ![c] = prt]
    /\ url_base' = [url_base EXCEPT ![c] = NormalizeBase(base)]
    /\ warned' = (warned \/ ~check_certs)
    /\ username' = [username EXCEPT ![c] = Str("anonymous")]
    /\ password' = [password EXCEPT ![c] = NoneVal]
    /\ UNCHANGED <<heap, callVars, threadVars>>

set_username(c, u) ==
    /\ pc = "idle" /\ created[c]
    /\ username' = [username EXCEPT ![c] = u]
    /\ auth' = _update_authorization(auth, session[c], u, password[c])
    /\ UNCHANGED <<created, host, port, url_base, session, password,
                   verify, warned, heap, callVars, threadVars>>

set_password(c, p) ==
    /\ pc = "idle" /\ created[c]
    /\ password' = [password EXCEPT ![c] = p]
    /\ auth' = _update_authorization(auth, session[c], username[c], p)
    /\ UNCHANGED <<created, host, port, url_base, session, username,
                   verify, warned, heap, callVars, threadVars>>

(***************************************************************************)
(* invoke_method, in the steps a caller and the server can tell apart.     *)
(***************************************************************************)
RaiseFault(e) == /\ pc' = "raised" /\ fault' = e

\* lines 225-227: the three maps are converted into three new dicts
InvokeMethod(c, method, path, pp, qp, fp) ==
    /\ pc = "idle" /\ created[c]
    /\ conn' = c /\ a_method' = method /\ a_path' = path
    /\ a_pp' = pp /\ a_qp' = qp /\ a_fp' = fp
    /\ LET r1 == _params_to_strings(heap[pp])
           r2 == _params_to_strings(heap[qp])
           r3 == _params_to_strings(heap[fp])
           o1 == new_params(pp, "l_path")
           o2 == new_params(qp, "l_query")
           o3 == new_params(fp, "l_form")
       IN  IF r1.exc # "" \/ r2.exc # "" \/ r3.exc # ""
           THEN /\ RaiseFault(IF r1.exc # "" THEN r1.exc
                              ELSE IF r2.exc # "" THEN r2.exc ELSE r3.exc)
                /\ UNCHANGED <<heap, path_params, query_params, form_params>>
           ELSE /\ heap' = [[[heap EXCEPT ![o1] = r1.val] EXCEPT ![o2] = r2.val]
                                   EXCEPT ![o3] = r3.val]
                /\ path_params' = o1 /\ query_params' = o2 /\ form_params' = o3
                /\ pc' = "build" /\ UNCHANGED fault
    /\ UNCHANGED <<connVars, sessVars, url, request, sent, response, parsed,
                   result, threadVars>>

\* lines 229-232: the URL is built; _build_url writes to the dicts it is given
BuildUrl ==
    /\ pc = "build"
    /\ LET b == _build_url(heap, url_base[conn], a_path, path_params, query_params)
       IN  /\ heap' = b.heap
           /\ IF b.exc # ""
              THEN /\ RaiseFault(b.exc) /\ UNCHANGED url
              ELSE /\ url' = AbsoluteUrl(host[conn], port[conn], b.url)
                   /\ pc' = "request" /\ UNCHANGED fault
    /\ UNCHANGED <<connVars, sessVars, conn, a_method, a_path, a_pp, a_qp, a_fp,
                   path_params, query_params, form_params,
                   request, sent, response, parsed, result, threadVars>>

\* lines 233-239: what self.session.request is called with; the session adds
\* its auth to the request
BuiltRequest ==
    [method |-> a_method, url |-> url,
     headers |-> <<[k |-> "Accept", v |-> "application/xml"]>>,
     data |-> IF Len(heap[form_params]) > 0 THEN Str(heap[form_params]) ELSE NoneVal,
     auth |-> auth[session[conn]]]

\* the request is sent and the server answers with resp
SessionRequest(resp) ==
    /\ pc = "request"
    /\ request' = Str(BuiltRequest) /\ sent' = sent + 1
    /\ response' = Str(resp) /\ pc' = "response"
    /\ UNCHANGED <<connVars, sessVars, heap, conn, a_method, a_path, a_pp, a_qp, a_fp,
                   path_params, query_params, form_params, url,
                   parsed, result, fault, threadVars>>

\* where invoke_method goes when session.request raises: the fault leaves
\* invoke_method, there is no loop around the call
AfterTransportFault_retry == "request"
AfterTransportFault == "raised"

\* the request is sent and the transport raises (no connection, timeout)
SessionRequestFails ==
    /\ pc = "request"
    /\ request' = Str(BuiltRequest) /\ sent' = sent + 1
    /\ pc' = AfterTransportFault /\ fault' = "ConnectionError"
    /\ UNCHANGED <<connVars, sessVars, heap, conn, a_method, a_path, a_pp, a_qp, a_fp,
                   path_params, query_params, form_params, url,
                   response, parsed, result, threadVars>>

\* lines 241-256: the response becomes the result, or the fault
ClassifyResponse ==
    /\ pc = "response"
    /\ LET r == Classify(response[1])
       IN  /\ parsed' = parsed + r.parsed
           /\ IF r.exc # ""
              THEN /\ RaiseFault(r.exc) /\ UNCHANGED result
              ELSE /\ result' = r.val /\ pc' = "done" /\ UNCHANGED fault
    /\ UNCHANGED <<connVars, sessVars, heap, conn, a_method, a_path, a_pp, a_qp, a_fp,
                   path_params, query_params, form_params, url,
                   request, sent, response, threadVars>>

\* invoke_method has returned or raised: its locals are gone
Return ==
    /\ pc \in {"done", "raised"}
    /\ pc' = "idle" /\ conn' = 0 /\ a_method' = "" /\ a_path' = <<>>
    /\ a_pp' = "" /\ a_qp' = "" /\ a_fp' = ""
    /\ path_params' = "" /\ query_params' = "" /\ form_params' = ""
    /\ url' = <<>> /\ request' = NoneVal /\ sent' = 0 /\ response' = NoneVal
    /\ parsed' = 0 /\ result' = NoneVal /\ fault' = ""
    /\ heap' = [o \in ObjIds |-> IF o \in LocalObjs THEN <<>> ELSE heap[o]]
    /\ UNCHANGED <<connVars, sessVars, threadVars>>

(***************************************************************************)
(* Spec: a program that creates connections, sets credentials and invokes  *)
(* methods, one call after the other.                                      *)
(***************************************************************************)
SessionsInUse == {session[d] : d \in {e \in Conns : created[e]}}
PlainResponses == {r \in Responses : r.status_code = 200 /\ r.reason = "OK"
                                       /\ r.body = "<result><person/></result>"}

Next ==
    \/ \E c \in Conns, h \in Hosts, prt \in Ports, base \in UrlBases,
          check_certs \in BOOLEAN, sess \in {NoneVal} \cup {Str(s) : s \in SessionsInUse} :
            Construct(c, h, prt, base, check_certs, sess)
    \/ \E c \in Conns, u \in Usernames : set_username(c, u)
    \/ \E c \in Conns, p \in Passwords : set_password(c, p)
    \/ \E c \in Conns : InvokeMethod(c, "GET", <<"/","p">>, "d_path", "d_query", "d_form")
    \/ BuildUrl
    \/ \E resp \in PlainResponses : SessionRequest(resp)
    \/ SessionRequestFails
    \/ ClassifyResponse
    \/ Return

Spec == Init /\ [][Next]_vars

(***************************************************************************)
(* SpecInvoke: one connection, invoked with every combination of the       *)
(* caller's maps and answered with every response.                         *)
(***************************************************************************)
InitInvoke ==
    /\ created = [c \in Conns |-> c = 1]
    /\ host = [c \in Conns |-> IF c = 1 THEN <<"h">> ELSE <<>>]
    /\ port = [c \in Conns |-> IF c = 1 THEN 443 ELSE 0]
    /\ \E base \in UrlBases :
          url_base = [c \in Conns |-> IF c = 1 THEN NormalizeBase(base) ELSE <<>>]
    /\ session = [c \in Conns |-> IF c = 1 THEN 1 ELSE 0]
    /\ username = [c \in Conns |-> IF c = 1 THEN Str("anonymous") ELSE NoneVal]
    /\ password = [c \in Conns |-> NoneVal]
    /\ auth = _update_authorization([s \in Conns |-> NoneVal], 1, Str("anonymous"), NoneVal)
    /\ verify = [s \in Conns |-> TRUE]
    /\ warned = FALSE
    /\ heap = InitHeap
    /\ NoCall /\ ThreadsIdle

NextInvoke ==
    \/ \E method \in Methods, path \in Paths, pp \in PathObjs \cup {"d_path"},
          qp \in QueryObjs \cup {"d_query"}, fp \in FormObjs \cup {"d_form"} :
            InvokeMethod(1, method, path, pp, qp, fp)
    \/ BuildUrl
    \/ \E resp \in Responses : SessionRequest(resp)
    \/ SessionRequestFails
    \/ ClassifyResponse
    \/ Return

SpecInvoke == InitInvoke /\ [][NextInvoke]_vars

(***************************************************************************)
(* SpecThreads: threads that each call set_username or set_password on the *)
(* one connection, interleaved at the attribute reads and writes of the    *)
(* setter and of _update_authorization.                                    *)
(***************************************************************************)
InitThreads == InitInvoke

threadFrame == <<created, host, port, url_base, session, verify, warned, heap, callVars>>

\* history: a setter was called while another thread was inside a setter
InSetter(t) == t_pc[t] \notin {"idle", "done"}
Overlaps(t) == overlapped \/ \E o \in Threads \ {t} : InSetter(o)

\* self.username = username
T_set_username(t, u) ==
    /\ t_pc[t] = "idle"
    /\ username' = [username EXCEPT ![1] = u]
    /\ t_pc' = [t_pc EXCEPT ![t] = "test_username"]
    /\ overlapped' = Overlaps(t)
    /\ UNCHANGED <<password, auth, t_ut, t_uv, t_pt, t_pv, threadFrame>>

\* self.password = password
T_set_password(t, p) ==
    /\ t_pc[t] = "idle"
    /\ password' = [password EXCEPT ![1] = p]
    /\ t_pc' = [t_pc EXCEPT ![t] = "test_username"]
    /\ overlapped' = Overlaps(t)
    /\ UNCHANGED <<username, auth, t_ut, t_uv, t_pt, t_pv, threadFrame>>

\* self.username is not None
T_test_username(t) ==
    /\ t_pc[t] = "test_username"
    /\ t_ut' = [t_ut EXCEPT ![t] = username[1]]
    /\ t_pc' = [t_pc EXCEPT ![t] = IF username[1] # NoneVal THEN "read_username"
                                                            ELSE "test_password"]
    /\ UNCHANGED <<username, password, auth, t_uv, t_pt, t_pv, overlapped, threadFrame>>

\* self.username, the first item of the tuple
T_read_username(t) ==
    /\ t_pc[t] = "read_username"
    /\ t_uv' = [t_uv EXCEPT ![t] = username[1]]
    /\ t_pc' = [t_pc EXCEPT ![t] = "test_password"]
    /\ UNCHANGED <<username, password, auth, t_ut, t_pt, t_pv, overlapped, threadFrame>>

\* self.password is not None
T_test_password(t) ==
    /\ t_pc[t] = "test_password"
    /\ t_pt' = [t_pt EXCEPT ![t] = password[1]]
    /\ t_pc' = [t_pc EXCEPT ![t] = IF password[1] # NoneVal THEN "read_password"
                                                            ELSE "store_auth"]
    /\ UNCHANGED <<username, password, auth, t_ut, t_uv, t_pv, overlapped, threadFrame>>

\* self.password, the second item of the tuple
T_read_password(t) ==
    /\ t_pc[t] = "read_password"
    /\ t_pv' = [t_pv EXCEPT ![t] = password[1]]
    /\ t_pc' = [t_pc EXCEPT ![t] = "store_auth"]
    /\ UNCHANGED <<username, password, auth, t_ut, t_uv, t_pt, overlapped, threadFrame>>

\* self.session.auth = (..., ...)
T_store_auth(t) ==
    /\ t_pc[t] = "store_auth"
    /\ auth' = [auth EXCEPT ![session[1]] = Str(AuthTuple(t_ut[t], t_uv[t], t_pt[t], t_pv[t]))]
    /\ t_pc' = [t_pc EXCEPT ![t] = "done"]
    /\ UNCHANGED <<username, password, t_ut, t_uv, t_pt, t_pv, overlapped, threadFrame>>

NextThreads ==
    \/ \E t \in Threads, u \in Usernames : T_set_username(t, u)
    \/ \E t \in Threads, p \in Passwords : T_set_password(t, p)
    \/ \E t \in Threads : T_test_username(t)
    \/ \E t \in Threads : T_read_username(t)
    \/ \E t \in Threads : T_test_password(t)
    \/ \E t \in Threads : T_read_password(t)
    \/ \E t \in Threads : T_store_auth(t)

SpecThreads == InitThreads /\ [][NextThreads]_vars

(***************************************************************************)
(* Properties.                                                             *)
(***************************************************************************)
\* the pair a request through connection c is authenticated with now
AuthOf(c) == auth[session[c]]
\* the pair _update_authorization resolves from the fields of connection c
Resolved(c) ==
    Str([username |-> IF username[c] = NoneVal THEN Str("anonymous") ELSE username[c],
         password |-> IF password[c] = NoneVal THEN Str("") ELSE password[c]])

\* C1: a call of set_username or set_password on a connection a never
\* changes the pair that requests through another connection b are
\* authenticated with.
C1_NoLeakToOtherConnection ==
    [][\A a, b \in Conns :
          (a # b /\ created[a] /\ created[b]
             /\ (username'[a] # username[a] \/ password'[a] # password[a]))
          => AuthOf(b)' = AuthOf(b)]_vars

\* C2: whenever a connection exists, the pair its next request is
\* authenticated with has no None in it and is (the user name last set or
\* "anonymous", the password last set or "").
C2_AuthIsResolvedCredentials ==
    \A c \in Conns :
        created[c] =>
            /\ AuthOf(c) # NoneVal
            /\ AuthOf(c)[1].username # NoneVal /\ AuthOf(c)[1].password # NoneVal
            /\ AuthOf(c) = Resolved(c)

Finished == pc \in {"done", "raised"}
Declared(r) == r # NoneVal /\ r[1].content_type # NoHeader

\* C3: when the response declares a content type other than application/xml,
\* whatever its status code, invoke_method returns a Failure whose error has
\* the status code, the reason phrase, the fixed message and the body of the
\* response, and the parser is not called.
C3_UnexpectedContentTypeIsFailure ==
    (Finished /\ Declared(response) /\ response[1].content_type # XML) =>
        /\ pc = "done" /\ fault = ""
        /\ result = Str([kind |-> "Failure", payload |-> NoneVal,
                         error |-> Str([status |-> response[1].status_code,
                                        code |-> response[1].reason,
                                        message |-> "Unexpected result from server",
                                        details |-> response[1].body])])
        /\ parsed = 0
C3_Witness ==
    /\ pc = "done" /\ response # NoneVal
    /\ response[1].content_type = "text/html" /\ response[1].status_code = 200
    /\ result[1].kind = "Failure"

\* C4: when the content type is application/xml the parser is called once
\* and invoke_method returns what the parser returned, whatever the status
\* code; when the parser raises, invoke_method raises that fault and returns
\* no result.
C4_XmlGoesThroughParser ==
    (Finished /\ response # NoneVal /\ response[1].content_type = XML) =>
        LET p == parse_xml(response[1].body)
        IN  /\ parsed = 1
            /\ p.exc = "" => (pc = "done" /\ result = Str(p.val) /\ fault = "")
            /\ p.exc # "" => (pc = "raised" /\ fault = p.exc /\ result = NoneVal)
C4_Witness ==
    /\ pc = "raised" /\ fault = "ExpatError" /\ parsed = 1 /\ result = NoneVal
    /\ response[1].content_type = XML /\ response[1].status_code = 200

\* C5: an invocation that returns a result has issued exactly one request;
\* a transport fault has issued one too; no invocation issues more than one.
C5_ExactlyOneRequest ==
    /\ sent <= 1
    /\ pc \in {"response", "done"} => sent = 1
    /\ fault = "ConnectionError" => sent = 1
C5_Witness ==
    /\ pc = "done" /\ sent = 1 /\ result[1].kind = "Failure"
    /\ response[1].content_type = XML

\* the query string of a URL and its entries
RECURSIVE IndexOf(_, _, _)
IndexOf(str, ch, i) ==
    IF i > Len(str) THEN 0 ELSE IF str[i] = ch THEN i ELSE IndexOf(str, ch, i + 1)
RECURSIVE SplitOn(_, _)
SplitOn(str, ch) ==
    LET i == IndexOf(str, ch, 1)
    IN  IF i = 0 THEN <<str>>
        ELSE <<SubSeq(str, 1, i - 1)>> \o SplitOn(SubSeq(str, i + 1, Len(str)), ch)
QueryString(u) == SubSeq(u, IndexOf(u, "?", 1) + 1, Len(u))
EntryKey(e) == SubSeq(e, 1, IndexOf(e, "=", 1) - 1)
EntryValue(e) == SubSeq(e, IndexOf(e, "=", 1) + 1, Len(e))
FlattenEntries(u) ==
    LET es == SplitOn(QueryString(u), "&")
    IN  {i \in 1..Len(es) : EntryKey(es[i]) = K_flatten}
FlattenValue(u) ==
    LET es == SplitOn(QueryString(u), "&")
    IN  EntryValue(es[CHOOSE i \in FlattenEntries(u) : TRUE])
\* the caller's own flatten value, as sent: the str of it, URL-encoded
CallerHasFlatten(d) == DictHas(d, K_flatten) /\ DictGet(d, K_flatten).t # "none"
CallerFlatten(d) == quote_plus(CoerceValue(DictGet(d, K_flatten)).val)

\* C6: the query string of the request URL has exactly one flatten entry:
\* flatten=true when the caller's query_params has no flatten value, the
\* caller's own value otherwise.
C6_ExactlyOneFlatten ==
    pc \in {"request", "response", "done"} =>
        /\ IndexOf(url, "?", 1) > 0
        /\ Cardinality(FlattenEntries(url)) = 1
        /\ FlattenValue(url) = IF CallerHasFlatten(heap[a_qp])
                               THEN CallerFlatten(heap[a_qp]) ELSE V_true
C6_Witness ==
    /\ pc = "request" /\ a_qp = "q_flat_false"
    /\ FlattenValue(url) = <<"f","a","l","s","e">>

\* the arguments of the invocation make parameter coercion or URL building fail
ArgsFail ==
    LET r1 == _params_to_strings(heap[a_pp])
        r2 == _params_to_strings(heap[a_qp])
        r3 == _params_to_strings(heap[a_fp])
    IN  \/ r1.exc # "" \/ r2.exc # "" \/ r3.exc # ""
        \/ PercentFormat(a_path, QuotePathParams(r1.val)).exc # ""

\* C7: an invocation whose parameter coercion or URL building fails raises
\* before any request is issued: it has sent nothing and never reaches the
\* request.
C7_FailFastBeforeRequest ==
    (pc # "idle" /\ ArgsFail) =>
        /\ sent = 0 /\ request = NoneVal
        /\ pc \in {"build", "raised"}
        /\ pc = "raised" => fault \in {"TypeError", "KeyError", "ValueError"}
C7_Witness ==
    /\ pc = "raised" /\ fault = "KeyError" /\ sent = 0 /\ response = NoneVal
    /\ a_pp = "p_none"

\* the URL and the body that the arguments and the settings alone give
OwnUrl ==
    LET h0 == [[InitHeap EXCEPT !["l_path"] = _params_to_strings(InitHeap[a_pp]).val]
                         EXCEPT !["l_query"] = _params_to_strings(InitHeap[a_qp]).val]
        b == _build_url(h0, url_base[conn], a_path, "l_path", "l_query")
    IN  AbsoluteUrl(host[conn], port[conn], b.url)
OwnData ==
    LET f == _params_to_strings(InitHeap[a_fp]).val
    IN  IF Len(f) > 0 THEN Str(f) ELSE NoneVal

\* C8: invoke_method never modifies the maps it is given nor the default
\* maps of its signature: every caller's map holds what it held at first,
\* the defaults are empty, and the URL and the body of a request are those
\* of the invocation's own arguments and the connection's settings.
C8_ArgumentsNeverModified ==
    /\ \A o \in CallerObjs : heap[o] = InitHeap[o]
    /\ \A o \in DefaultObjs : heap[o] = <<>>
    /\ pc \in {"request", "response", "done"} => url = OwnUrl
    /\ request # NoneVal => (request[1].url = OwnUrl /\ request[1].data = OwnData)
C8_Witness ==
    /\ pc = "done" /\ a_pp = "p_space" /\ a_qp = "d_query" /\ a_fp = "q_fetch"
    /\ heap["l_query"] # <<>> /\ heap["d_query"] = <<>>
    /\ request[1].data # NoneVal

\* C9: _build_url leaves the values of the path_params map it is given as
\* they were, also when a value holds a space or a slash.
C9_PathParamsKeptByBuildUrl ==
    [][pc = "build" => heap'[path_params] = heap[path_params]]_vars

AllDone == \A t \in Threads : t_pc[t] = "done"

\* C10: once every thread's setter has completed, the pair used for the
\* next request is (the user name written last, the password written last),
\* None resolved, for any interleaving of the setters.
C10_LastWriterWins == AllDone => AuthOf(1) = Resolved(1)

\* C10 as amended: the same, for setter calls that did not overlap in time.
C10_LastWriterWinsWithoutOverlap ==
    (AllDone /\ ~overlapped) => AuthOf(1) = Resolved(1)
C10_Witness ==
    /\ AllDone /\ ~overlapped
    /\ username[1] = Str("grp") /\ password[1] = Str("pw")
    /\ AuthOf(1) = Str([username |-> Str("grp"), password |-> Str("pw")])

=============================================================================
